---- MODULE Spec2Model ----
(***************************************************************************)
(* Model of pytkdocs' command line application (src/pytkdocs/cli.py):      *)
(* main() reading requests from standard input in line mode or in          *)
(* whole-stream mode, process_json / process_config driving the Loader and *)
(* the serializer once per object, and extract_errors flattening the       *)
(* docstring parsing errors of a documentation tree.                       *)
(*                                                                         *)
(* Python values are represented as follows.                               *)
(*   dict  : a function whose DOMAIN is the set of its keys                *)
(*   list  : a sequence                                                    *)
(*   str   : a string                                                      *)
(*   object with optional attribute : a function whose DOMAIN holds the    *)
(*           attribute name iff hasattr() is true                          *)
(*   text on a stream : a record [text, value]; `text` tells what kind of  *)
(*           text it is and `value` is the JSON value it denotes           *)
(***************************************************************************)
EXTENDS Integers, Sequences, FiniteSets, TLC

\* Longest input stream explored in line mode (number of lines).
MaxLines == 2
\* Longest `objects` list of a request.
MaxObjs == 2
\* Number of times extract_errors is run on one tree.
MaxRuns == 2
\* Most children of the root of a generated tree.
MaxChildren == 2

VARIABLES
    line_by_line,    \* args.line_by_line
    block_buffered,  \* sys.stdout is block-buffered (a pipe or a file, no -u)
    pc,              \* position of the program
    inp,             \* the texts read from sys.stdin so far, in order
    out,             \* the lines printed on sys.stdout so far, in order
    delivered,       \* how many lines of `out` have left the buffer of sys.stdout
    config,          \* process_config: the `config` argument
    global_config,   \* process_config: local `global_config`
    collected,       \* process_config: local `collected`
    loading_errors,  \* process_config: local `loading_errors`
    parsing_errors,  \* process_config: local `parsing_errors`
    idx,             \* process_config: position of the `for obj in` iterator
    exc,             \* the exception being raised, NoExc when none
    ret,             \* value returned by the last process_json call
    exit_code,       \* exit status of main, -1 while it runs
    calls,           \* log of the collaborator calls made so far
    given,           \* extract_errors alone: the tree as it was handed over
    tree,            \* extract_errors alone: the tree `obj` as it is now
    xerrors,         \* extract_errors: its dictionary `parsing_errors` being filled
    stack,           \* extract_docstring_parsing_errors: the frames of the recursion
    visited,         \* the nodes handled by the current run, in order
    returned,        \* the dictionaries the finished runs returned, in order
    xpc              \* extract_errors alone: "idle" between runs, "walk" in a run

\* The state of main and of process_config.
mainVars == << line_by_line, block_buffered, pc, inp, out, delivered, config,
               global_config, collected, loading_errors, parsing_errors, idx,
               exc, ret, exit_code, calls >>

\* The state of a run of extract_errors on its own.
treeVars == << given, tree, xerrors, stack, visited, returned, xpc >>

vars == << mainVars, treeVars >>

-----------------------------------------------------------------------------
(* Python values *)

EmptyMap == [k \in {} |-> 0]

None == [none |-> TRUE]

NoExc == [type |-> "", msg |-> ""]

Raise(type, msg) == [type |-> type, msg |-> msg]

\* dict.get(key, default)
dict_get(d, key, default) == IF key \in DOMAIN d THEN d[key] ELSE default

\* d.update(other), as the value of d afterwards
dict_update_first_wins(d, other) ==
    [k \in DOMAIN d \cup DOMAIN other |-> IF k \in DOMAIN d THEN d[k] ELSE other[k]]

dict_update(d, other) ==
    [k \in DOMAIN d \cup DOMAIN other |-> IF k \in DOMAIN other THEN other[k] ELSE d[k]]

\* l.extend(other), as the value of l afterwards
list_extend_front(l, other) == other \o l

list_extend(l, other) == l \o other

\* The lists of a list of lists, joined in order.
RECURSIVE Concat(_)
Concat(seqs) == IF seqs = <<>> THEN <<>> ELSE Head(seqs) \o Concat(Tail(seqs))

\* l.append(x), as the value of l afterwards
list_append_front(l, x) == <<x>> \o l

list_append(l, x) == Append(l, x)

-----------------------------------------------------------------------------
(* The collaborators: pytkdocs.loader.Loader and                           *)
(* pytkdocs.serializer.serialize_object, at their boundary.  They are      *)
(* deterministic; what they do for a path is fixed by the tables below.    *)

\* Keyword arguments the Loader constructor accepts.
LoaderOptions == {"a", "b"}

\* Paths for which get_object_documentation raises.
Unloadable == {"pkg.boom"}

\* Paths whose documentation tree the serializer cannot handle.
Unserializable == {"pkg.unser"}

Plain(path, children) == [path |-> path, children |-> children]

Erring(path, errors, children) ==
    [path |-> path, docstring_errors |-> errors, children |-> children]

\* The documentation tree get_object_documentation(path) returns.
Documentation(path) ==
    CASE path = "pkg.foo" ->
            Plain("pkg.foo", <<>>)
      [] path = "pkg.mod.Class" ->
            Plain("pkg.mod.Class",
                  << Erring("pkg.mod.Class.method", <<"e1">>, <<>>),
                     Erring("pkg.mod.Class.attr", <<"e5">>,
                            << Plain("pkg.mod.Class.attr.x", <<>>) >>) >>)
      [] path = "pkg.mod.Class.method" ->
            Erring("pkg.mod.Class.method", <<"e2", "e3">>, <<>>)
      [] path = "pkg.other" ->
            Erring("pkg.other", <<"e4">>,
                   << Erring("pkg.other.x", <<>>, <<>>) >>)
      [] OTHER ->
            Plain(path, <<>>)

\* loader.errors after get_object_documentation(path) on a new Loader.
LoaderErrors(path) ==
    CASE path = "pkg.mod.Class" -> <<"m1">>
      [] path = "pkg.mod.Class.method" -> <<"m2", "m3">>
      [] OTHER -> <<>>

RECURSIVE serialize_object(_)
serialize_object(o) ==
    [path |-> o.path,
     children |-> [c \in 1..Len(o.children) |-> serialize_object(o.children[c])]]

-----------------------------------------------------------------------------
(* extract_errors *)

\* Lines 126-127: `if hasattr(o, "docstring_errors"): errors[o.path] = ...`.
\* The values of the `errors` dictionary and of the node `o` afterwards.
record_keep_first(errors, o) ==
    [errors |-> IF "docstring_errors" \in DOMAIN o
                THEN dict_update([k \in {o.path} |-> o.docstring_errors], errors)
                ELSE errors,
     o |-> o]

record_and_clear(errors, o) ==
    [errors |-> IF "docstring_errors" \in DOMAIN o
                THEN dict_update(errors, [k \in {o.path} |-> o.docstring_errors])
                ELSE errors,
     o |-> [path |-> o.path, children |-> o.children]]

record(errors, o) ==
    [errors |-> IF "docstring_errors" \in DOMAIN o
                THEN dict_update(errors, [k \in {o.path} |-> o.docstring_errors])
                ELSE errors,
     o |-> o]

RECURSIVE extract_docstring_parsing_errors(_, _)
RECURSIVE extract_children(_, _, _)

\* The `for child in o.children` loop from child number c on.
extract_children(errors, children, c) ==
    IF c > Len(children) THEN errors
    ELSE extract_children(extract_docstring_parsing_errors(errors, children[c]),
                          children, c + 1)

\* The value of the `errors` dictionary after the call.
extract_docstring_parsing_errors(errors, o) ==
    LET own == record(errors, o).errors
    IN  extract_children(own, o.children, 1)

extract_errors(obj) == extract_docstring_parsing_errors(EmptyMap, obj)

-----------------------------------------------------------------------------
(* json *)

\* Texts json.loads cannot decode.
Undecodable == {"", "{not json"}

\* json.loads(text): the decoded value, or the exception it raises.
json_loads(line) ==
    IF line.text \in Undecodable
    THEN [exc |-> Raise("JSONDecodeError", "Expecting value"), type |-> "", value |-> EmptyMap]
    ELSE IF line.text = "[]"
    THEN [exc |-> NoExc, type |-> "list", value |-> EmptyMap]
    ELSE [exc |-> NoExc, type |-> "dict", value |-> line.value]

\* json.dumps(value) as a line of text.
json_dumps(value) == [text |-> "json", value |-> value]

\* print(text) on sys.stdout, as the content of the stream afterwards
print_nothing(stream, text) == stream

print(stream, text) == Append(stream, text)

-----------------------------------------------------------------------------
(* The collaborators' calls, as process_config sees them *)

\* Loader(**loader_config): the exception the constructor raises, if any.
Loader_init(loader_config) ==
    IF DOMAIN loader_config \subseteq LoaderOptions
    THEN NoExc
    ELSE Raise("TypeError", "__init__() got an unexpected keyword argument")

\* loader.get_object_documentation(path) on a new Loader: the exception it
\* raises, or the tree it returns and loader.errors afterwards.
get_object_documentation(path) ==
    IF path \in Unloadable
    THEN [exc |-> Raise("ImportError", "cannot load object"),
          obj |-> Plain(path, <<>>), errors |-> <<>>]
    ELSE [exc |-> NoExc, obj |-> Documentation(path), errors |-> LoaderErrors(path)]

\* serialize_object(obj): the exception it raises, if any.
serialize_raises(obj) ==
    IF obj.path \in Unserializable
    THEN Raise("ValueError", "cannot serialize object")
    ELSE NoExc

\* An entry of the call log.
Call(op, loader_config, path) == [op |-> op, config |-> loader_config, path |-> path]

-----------------------------------------------------------------------------
(* process_config *)

\* Lines 87-88: loader_config = dict(global_config); loader_config.update(...).
\* The values of loader_config and of global_config afterwards.
merge_config_global_wins(global, obj) ==
    [loader_config |-> dict_update(dict_get(obj, "config", EmptyMap), global),
     global_config |-> global]

merge_config_no_copy(global, obj) ==
    LET merged == dict_update(global, dict_get(obj, "config", EmptyMap))
    IN  [loader_config |-> merged, global_config |-> merged]

merge_config(global, obj) ==
    [loader_config |-> dict_update(global, dict_get(obj, "config", EmptyMap)),
     global_config |-> global]

\* Line 99: the dictionary that is printed.
Envelope_errors_fatal(le, pe, col) ==
    IF le # <<>> \/ pe # EmptyMap
    THEN [error |-> "errors were found", traceback |-> ""]
    ELSE [loading_errors |-> le, parsing_errors |-> pe, objects |-> col]

Envelope(le, pe, col) ==
    [loading_errors |-> le, parsing_errors |-> pe, objects |-> col]

\* The locals after one pass through the body of `for obj in config["objects"]`
\* (lines 87-97), the exception the pass raised and the collaborator calls it made.
Locals(e, g, le, pe, col, log) ==
    [exc |-> e, global_config |-> g, loading_errors |-> le,
     parsing_errors |-> pe, collected |-> col, calls |-> log]

Iteration_swallow(global, le, pe, col, obj) ==
    LET m == merge_config(global, obj)
        path == dict_get(obj, "path", "")
        got == get_object_documentation(path)
        bad == \/ Loader_init(m.loader_config) # NoExc
               \/ "path" \notin DOMAIN obj
               \/ got.exc # NoExc
               \/ serialize_raises(got.obj) # NoExc
    IN  IF bad
        THEN Locals(NoExc, m.global_config, le, pe, col, <<>>)
        ELSE Locals(NoExc, m.global_config,
                    list_extend(le, got.errors),
                    dict_update(pe, extract_errors(got.obj)),
                    list_append(col, serialize_object(got.obj)),
                    << Call("Loader", m.loader_config, ""),
                       Call("get_object_documentation", m.loader_config, path),
                       Call("serialize_object", EmptyMap, got.obj.path) >>)

Iteration_default_path(global, le, pe, col, obj) ==
    LET m == merge_config(global, obj)
        ctor == Call("Loader", m.loader_config, "")
        path == dict_get(obj, "path", "")
        get == Call("get_object_documentation", m.loader_config, path)
        got == get_object_documentation(path)
        ser == Call("serialize_object", EmptyMap, got.obj.path)
    IN  IF Loader_init(m.loader_config) # NoExc
        THEN Locals(Loader_init(m.loader_config), m.global_config, le, pe, col, <<ctor>>)
        ELSE IF got.exc # NoExc
        THEN Locals(got.exc, m.global_config, le, pe, col, <<ctor, get>>)
        ELSE IF serialize_raises(got.obj) # NoExc
        THEN Locals(serialize_raises(got.obj), m.global_config, le, pe, col,
                    <<ctor, get, ser>>)
        ELSE Locals(NoExc, m.global_config,
                    list_extend(le, got.errors),
                    dict_update(pe, extract_errors(got.obj)),
                    list_append(col, serialize_object(got.obj)),
                    <<ctor, get, ser>>)

Iteration(global, le, pe, col, obj) ==
    LET m == merge_config(global, obj)
        ctor == Call("Loader", m.loader_config, "")
    IN  IF Loader_init(m.loader_config) # NoExc
        THEN Locals(Loader_init(m.loader_config), m.global_config, le, pe, col, <<ctor>>)
        ELSE IF "path" \notin DOMAIN obj
        THEN Locals(Raise("KeyError", "'path'"), m.global_config, le, pe, col, <<ctor>>)
        ELSE
        LET path == obj["path"]
            get == Call("get_object_documentation", m.loader_config, path)
            got == get_object_documentation(path)
        IN  IF got.exc # NoExc
            THEN Locals(got.exc, m.global_config, le, pe, col, <<ctor, get>>)
            ELSE
            LET le2 == list_extend(le, got.errors)
                pe2 == dict_update(pe, extract_errors(got.obj))
                ser == Call("serialize_object", EmptyMap, got.obj.path)
            IN  IF serialize_raises(got.obj) # NoExc
                THEN Locals(serialize_raises(got.obj), m.global_config, le2, pe2, col,
                            <<ctor, get, ser>>)
                ELSE Locals(NoExc, m.global_config, le2, pe2,
                            list_append(col, serialize_object(got.obj)),
                            <<ctor, get, ser>>)

\* process_json(text) up to the `for` statement: json.loads (line 113),
\* config.get("global_config", {}) (line 81) and config["objects"] (line 86).
Enter_reject_empty(text) ==
    LET d == json_loads(text)
    IN  IF d.exc # NoExc
        THEN [exc |-> d.exc, config |-> None, global_config |-> EmptyMap]
        ELSE IF d.type # "dict"
        THEN [exc |-> Raise("AttributeError", "'list' object has no attribute 'get'"),
              config |-> None, global_config |-> EmptyMap]
        ELSE IF "objects" \notin DOMAIN d.value
        THEN [exc |-> Raise("KeyError", "'objects'"),
              config |-> None, global_config |-> EmptyMap]
        ELSE IF d.value["objects"] = <<>>
        THEN [exc |-> Raise("ValueError", "no objects"),
              config |-> None, global_config |-> EmptyMap]
        ELSE [exc |-> NoExc, config |-> d.value,
              global_config |-> dict_get(d.value, "global_config", EmptyMap)]

Enter(text) ==
    LET d == json_loads(text)
    IN  IF d.exc # NoExc
        THEN [exc |-> d.exc, config |-> None, global_config |-> EmptyMap]
        ELSE IF d.type # "dict"
        THEN [exc |-> Raise("AttributeError", "'list' object has no attribute 'get'"),
              config |-> None, global_config |-> EmptyMap]
        ELSE IF "objects" \notin DOMAIN d.value
        THEN [exc |-> Raise("KeyError", "'objects'"),
              config |-> None, global_config |-> EmptyMap]
        ELSE [exc |-> NoExc, config |-> d.value,
              global_config |-> dict_get(d.value, "global_config", EmptyMap)]

-----------------------------------------------------------------------------
(* main *)

\* Line 180: the dictionary printed for a line that failed.
ErrorObject_no_traceback(e) == [error |-> e.msg]

ErrorObject(e) == [error |-> e.msg, traceback |-> e.type]

\* Lines 173-182: whether the call of process_json is inside the try statement.
Caught_always(lbl) == TRUE

Caught_never(lbl) == FALSE

Caught(lbl) == lbl

-----------------------------------------------------------------------------
(* The inputs explored *)

\* A text that holds the JSON object `value`.
JsonText(value) == [text |-> "{...}", value |-> value]

\* Texts that hold no request object: empty, not JSON, a JSON list, and a
\* JSON object without the `objects` key.
NoRequestTexts ==
    { [text |-> "", value |-> EmptyMap],
      [text |-> "{not json", value |-> EmptyMap],
      [text |-> "[]", value |-> EmptyMap],
      JsonText(EmptyMap) }

SeqsUpTo(S, n) == UNION { [1..k -> S] : k \in 0..n }

\* Object specs of the requests sent in whole-stream mode.
StreamObjectSpecs ==
    { [path |-> p] : p \in {"pkg.foo", "pkg.mod.Class", "pkg.mod.Class.method",
                            "pkg.other", "pkg.boom", "pkg.unser"} }
    \cup { [path |-> "pkg.mod.Class", config |-> [b |-> 3]],
           [path |-> "pkg.foo", config |-> [bogus |-> 1]],
           [path |-> "pkg.other", config |-> [a |-> 2, b |-> 2]],
           [config |-> [b |-> 3]],
           EmptyMap }

StreamTexts ==
    NoRequestTexts
    \cup { JsonText([objects |-> objs]) : objs \in SeqsUpTo(StreamObjectSpecs, MaxObjs) }
    \cup { JsonText([objects |-> objs, global_config |-> g]) :
             objs \in SeqsUpTo(StreamObjectSpecs, MaxObjs),
             g \in { [a |-> 1, b |-> 2], [a |-> 1] } }

\* Object specs of the requests sent in line mode.
LineObjectSpecs ==
    { [path |-> "pkg.mod.Class.method", config |-> [b |-> 3]],
      [path |-> "pkg.boom"] }

LineTexts ==
    NoRequestTexts
    \cup { JsonText([objects |-> objs, global_config |-> [a |-> 1, b |-> 2]]) :
             objs \in SeqsUpTo(LineObjectSpecs, MaxObjs) }

-----------------------------------------------------------------------------
(* The program *)

\* No run of extract_errors on its own is going on.
NoTree ==
    /\ given = None
    /\ tree = None
    /\ xerrors = EmptyMap
    /\ stack = <<>>
    /\ visited = <<>>
    /\ returned = <<>>
    /\ xpc = "off"

Init ==
    /\ line_by_line \in BOOLEAN
    /\ block_buffered \in BOOLEAN
    /\ pc = "main"
    /\ inp = <<>>
    /\ out = <<>>
    /\ delivered = 0
    /\ config = None
    /\ global_config = EmptyMap
    /\ collected = <<>>
    /\ loading_errors = <<>>
    /\ parsing_errors = EmptyMap
    /\ idx = 0
    /\ exc = NoExc
    /\ ret = None
    /\ exit_code = -1
    /\ calls = <<>>
    /\ NoTree

\* How many lines have left the buffer of sys.stdout once `stream` holds what
\* was printed: all of them on a line-buffered or unbuffered stream; on a
\* block-buffered one the buffer is only written out when it is full.
AfterPrint(stream) ==
    IF block_buffered THEN {delivered, Len(stream)} ELSE {Len(stream)}

\* process_config has no frame: its locals are gone.
NoFrame ==
    /\ config' = None
    /\ global_config' = EmptyMap
    /\ collected' = <<>>
    /\ loading_errors' = <<>>
    /\ parsing_errors' = EmptyMap
    /\ idx' = 0

\* The call process_json(text), up to the first pass of the for loop.
ProcessJson(text) ==
    LET e == Enter(text)
    IN  /\ inp' = Append(inp, text)
        /\ exc' = e.exc
        /\ IF e.exc = NoExc
           THEN /\ pc' = "for"
                /\ config' = e.config
                /\ global_config' = e.global_config
                /\ collected' = <<>>
                /\ loading_errors' = <<>>
                /\ parsing_errors' = EmptyMap
                /\ idx' = 1
           ELSE /\ pc' = "raised"
                /\ NoFrame
        /\ UNCHANGED << line_by_line, block_buffered, out, delivered, ret, exit_code, calls >>
        /\ UNCHANGED treeVars

\* Line mode: `for line in sys.stdin` yields a line, process_json(line) starts.
ReadLine ==
    /\ pc = "main"
    /\ line_by_line
    /\ Len(inp) < MaxLines
    /\ \E text \in LineTexts : ProcessJson(text)

\* Whole-stream mode: process_json(sys.stdin.read()) starts.
ReadAll ==
    /\ pc = "main"
    /\ ~line_by_line
    /\ inp = <<>>
    /\ \E text \in StreamTexts : ProcessJson(text)

\* One pass through the body of the for loop of process_config.
ForBody_shared_loader ==
    /\ pc = "for"
    /\ idx <= Len(config["objects"])
    /\ LET r == Iteration(global_config, loading_errors, parsing_errors, collected,
                          config["objects"][idx])
           shared == Concat([c \in 1..Len(calls) |->
                               IF calls[c].op = "get_object_documentation"
                               THEN LoaderErrors(calls[c].path) ELSE <<>>])
       IN  /\ calls' = calls \o [c \in 1..Len(r.calls) |->
                                   [line |-> Len(inp), obj |-> idx, op |-> r.calls[c].op,
                                    config |-> r.calls[c].config, path |-> r.calls[c].path]]
           /\ exc' = r.exc
           /\ IF r.exc = NoExc
              THEN /\ pc' = "for"
                   /\ idx' = idx + 1
                   /\ global_config' = r.global_config
                   /\ loading_errors' = list_extend(shared, r.loading_errors)
                   /\ parsing_errors' = r.parsing_errors
                   /\ collected' = r.collected
                   /\ UNCHANGED config
              ELSE /\ pc' = "raised"
                   /\ NoFrame
    /\ UNCHANGED << line_by_line, block_buffered, inp, out, delivered, ret, exit_code >>
    /\ UNCHANGED treeVars

ForBody ==
    /\ pc = "for"
    /\ idx <= Len(config["objects"])
    /\ LET r == Iteration(global_config, loading_errors, parsing_errors, collected,
                          config["objects"][idx])
       IN  /\ calls' = calls \o [c \in 1..Len(r.calls) |->
                                   [line |-> Len(inp), obj |-> idx, op |-> r.calls[c].op,
                                    config |-> r.calls[c].config, path |-> r.calls[c].path]]
           /\ exc' = r.exc
           /\ IF r.exc = NoExc
              THEN /\ pc' = "for"
                   /\ idx' = idx + 1
                   /\ global_config' = r.global_config
                   /\ loading_errors' = r.loading_errors
                   /\ parsing_errors' = r.parsing_errors
                   /\ collected' = r.collected
                   /\ UNCHANGED config
              ELSE /\ pc' = "raised"
                   /\ NoFrame
    /\ UNCHANGED << line_by_line, block_buffered, inp, out, delivered, ret, exit_code >>
    /\ UNCHANGED treeVars

\* The for loop is exhausted: line 99 prints the envelope and process_config,
\* then process_json, return what process_config returns.
PrintEnvelope ==
    /\ pc = "for"
    /\ idx > Len(config["objects"])
    /\ out' = print(out, json_dumps(Envelope(loading_errors, parsing_errors, collected)))
    /\ ret' = None
    /\ pc' = "returned"
    /\ NoFrame
    /\ delivered' \in AfterPrint(out')
    /\ UNCHANGED << line_by_line, block_buffered, inp, exc, exit_code, calls >>
    /\ UNCHANGED treeVars

\* Line mode: the call at line 176 returned, the loop goes on.
LoopBack ==
    /\ pc = "returned"
    /\ line_by_line
    /\ pc' = "main"
    /\ UNCHANGED << line_by_line, block_buffered, inp, out, delivered, config,
                    global_config, collected, loading_errors, parsing_errors, idx,
                    exc, ret, exit_code, calls >>
    /\ UNCHANGED treeVars

\* Whole-stream mode: the call at line 182 returned, main returns 0 and the
\* interpreter writes out the buffer of sys.stdout as it exits.
ReturnWhole ==
    /\ pc = "returned"
    /\ ~line_by_line
    /\ pc' = "done"
    /\ exit_code' = 0
    /\ delivered' = Len(out)
    /\ UNCHANGED << line_by_line, block_buffered, inp, out, config, global_config,
                    collected, loading_errors, parsing_errors, idx, exc, ret, calls >>
    /\ UNCHANGED treeVars

\* Lines 177-180: the exception is caught and printed as a JSON object.
Except ==
    /\ pc = "raised"
    /\ Caught(line_by_line)
    /\ out' = print(out, json_dumps(ErrorObject(exc)))
    /\ exc' = NoExc
    /\ pc' = "main"
    /\ delivered' \in AfterPrint(out')
    /\ UNCHANGED << line_by_line, block_buffered, inp, config, global_config, collected,
                    loading_errors, parsing_errors, idx, ret, exit_code, calls >>
    /\ UNCHANGED treeVars

\* The exception leaves main: the interpreter writes out the buffer of
\* sys.stdout and exits with status 1.
Propagate ==
    /\ pc = "raised"
    /\ ~Caught(line_by_line)
    /\ pc' = "crashed"
    /\ exit_code' = 1
    /\ delivered' = Len(out)
    /\ UNCHANGED << line_by_line, block_buffered, inp, out, config, global_config,
                    collected, loading_errors, parsing_errors, idx, exc, ret, calls >>
    /\ UNCHANGED treeVars

\* Line mode: sys.stdin is exhausted, main returns 0 and the interpreter
\* writes out the buffer of sys.stdout as it exits.
EndOfInput ==
    /\ pc = "main"
    /\ line_by_line
    /\ pc' = "done"
    /\ exit_code' = 0
    /\ delivered' = Len(out)
    /\ UNCHANGED << line_by_line, block_buffered, inp, out, config, global_config,
                    collected, loading_errors, parsing_errors, idx, exc, ret, calls >>
    /\ UNCHANGED treeVars

Next ==
    \/ ReadLine
    \/ ReadAll
    \/ ForBody
    \/ PrintEnvelope
    \/ LoopBack
    \/ ReturnWhole
    \/ Except
    \/ Propagate
    \/ EndOfInput

Spec == Init /\ [][Next]_vars

\* The program keeps running and sys.stdin, being finite, ends: a step that
\* can be taken is taken.
FairSpec == Spec /\ WF_vars(Next)

-----------------------------------------------------------------------------
(* extract_errors on its own, one step of the recursion at a time.  A node  *)
(* of a tree is named by its position: the child numbers on the way from   *)
(* the root, <<>> for the root itself.                                     *)

RECURSIVE NodeAt(_, _)
NodeAt(t, pos) ==
    IF pos = <<>> THEN t ELSE NodeAt(t.children[Head(pos)], Tail(pos))

\* The tree t with the node at pos replaced by n.
RECURSIVE ReplaceAt(_, _, _)
ReplaceAt(t, pos, n) ==
    IF pos = <<>> THEN n
    ELSE [t EXCEPT !.children =
             [c \in 1..Len(t.children) |->
                 IF c = Head(pos) THEN ReplaceAt(t.children[c], Tail(pos), n)
                 ELSE t.children[c]]]

\* The trees extract_errors is run on: every tree of a root and up to
\* MaxChildren children, and the trees of the Loader's table, which are deeper.
NodePaths == {"m", "m.f"}

NodeErrors == { <<>>, <<"e1">>, <<"e2", "e3">> }

Leaves ==
    { Plain(p, <<>>) : p \in NodePaths }
    \cup { Erring(p, e, <<>>) : p \in NodePaths, e \in NodeErrors }

Trees ==
    { Plain(p, ch) : p \in NodePaths, ch \in SeqsUpTo(Leaves, MaxChildren) }
    \cup { Erring(p, e, ch) : p \in NodePaths, e \in NodeErrors, ch \in SeqsUpTo(Leaves, MaxChildren) }
    \cup { Documentation(p) : p \in {"pkg.foo", "pkg.mod.Class", "pkg.other"} }
    \cup { Erring("m", <<"e1">>,
                  << Plain("m.f", << Erring("m", <<"e2", "e3">>, <<>>) >>),
                     Erring("m.g", <<"e4">>, <<>>) >>) }

ExtractInit ==
    /\ line_by_line = FALSE
    /\ block_buffered = FALSE
    /\ pc = "extract"
    /\ inp = <<>>
    /\ out = <<>>
    /\ delivered = 0
    /\ config = None
    /\ global_config = EmptyMap
    /\ collected = <<>>
    /\ loading_errors = <<>>
    /\ parsing_errors = EmptyMap
    /\ idx = 0
    /\ exc = NoExc
    /\ ret = None
    /\ exit_code = -1
    /\ calls = <<>>
    /\ given \in Trees
    /\ tree = given
    /\ xerrors = EmptyMap
    /\ stack = <<>>
    /\ visited = <<>>
    /\ returned = <<>>
    /\ xpc = "idle"

\* The frame on top of the stack, and the stack with that frame at child c.
Top == stack[Len(stack)]

WithTopAt(c) == [stack EXCEPT ![Len(stack)] = [pos |-> Top.pos, c |-> c]]

\* Lines 142-143: extract_errors(obj) makes its dictionary and calls the
\* recursion helper on obj.
CallExtract ==
    /\ xpc = "idle"
    /\ Len(returned) < MaxRuns
    /\ xerrors' = EmptyMap
    /\ stack' = << [pos |-> <<>>, c |-> 0] >>
    /\ visited' = <<>>
    /\ xpc' = "walk"
    /\ UNCHANGED << given, tree, returned >>
    /\ UNCHANGED mainVars

\* Lines 126-127 in the frame on top: the node itself is handled.
VisitNode ==
    /\ xpc = "walk"
    /\ stack # <<>>
    /\ Top.c = 0
    /\ LET r == record(xerrors, NodeAt(tree, Top.pos))
       IN  /\ xerrors' = r.errors
           /\ tree' = ReplaceAt(tree, Top.pos, r.o)
    /\ visited' = Append(visited, Top.pos)
    /\ stack' = WithTopAt(1)
    /\ UNCHANGED << given, returned, xpc >>
    /\ UNCHANGED mainVars

\* Lines 128-129 in the frame on top: the loop yields the next child and the
\* helper is called on it.
EnterChild ==
    /\ xpc = "walk"
    /\ stack # <<>>
    /\ Top.c >= 1
    /\ Top.c <= Len(NodeAt(tree, Top.pos).children)
    /\ stack' = Append(WithTopAt(Top.c + 1), [pos |-> Append(Top.pos, Top.c), c |-> 0])
    /\ UNCHANGED << given, tree, xerrors, visited, returned, xpc >>
    /\ UNCHANGED mainVars

\* Line 128 in the frame on top: the loop is exhausted, the helper returns.
LeaveNode ==
    /\ xpc = "walk"
    /\ stack # <<>>
    /\ Top.c > Len(NodeAt(tree, Top.pos).children)
    /\ stack' = SubSeq(stack, 1, Len(stack) - 1)
    /\ UNCHANGED << given, tree, xerrors, visited, returned, xpc >>
    /\ UNCHANGED mainVars

\* Line 144: extract_errors returns its dictionary.
ReturnErrors ==
    /\ xpc = "walk"
    /\ stack = <<>>
    /\ returned' = Append(returned, xerrors)
    /\ xpc' = "idle"
    /\ UNCHANGED << given, tree, xerrors, stack, visited >>
    /\ UNCHANGED mainVars

ExtractNext ==
    \/ CallExtract
    \/ VisitNode
    \/ EnterChild
    \/ LeaveNode
    \/ ReturnErrors

ExtractSpec == ExtractInit /\ [][ExtractNext]_vars

-----------------------------------------------------------------------------
(* What the properties below talk about *)

\* The output line is a response envelope / an error object.
IsEnvelope(line) == DOMAIN line.value = {"loading_errors", "parsing_errors", "objects"}

IsErrorObject(line) == DOMAIN line.value = {"error", "traceback"}

\* The text decodes to a JSON object that has the `objects` key.
HasRequest(text) == text.text = "{...}" /\ "objects" \in DOMAIN text.value

Objects(text) == text.value["objects"]

GlobalOf(text) ==
    IF "global_config" \in DOMAIN text.value THEN text.value["global_config"] ELSE EmptyMap

ConfigOf(spec) == IF "config" \in DOMAIN spec THEN spec["config"] ELSE EmptyMap

\* What goes wrong with one object spec of a request, read off the request
\* and the collaborators' tables: the first step that fails, "" when none does.
Failure(text, j) ==
    LET spec == Objects(text)[j]
    IN  IF \E k \in DOMAIN GlobalOf(text) \cup DOMAIN ConfigOf(spec) : k \notin LoaderOptions
        THEN "Loader"
        ELSE IF "path" \notin DOMAIN spec THEN "path"
        ELSE IF spec["path"] \in Unloadable THEN "get_object_documentation"
        ELSE IF spec["path"] \in Unserializable THEN "serialize_object"
        ELSE ""

\* Decoding or processing of the text fails.
TextFails(text) ==
    \/ ~HasRequest(text)
    \/ \E j \in 1..Len(Objects(text)) : Failure(text, j) # ""

\* A collaborator call fails while object k of the text's request is processed.
CollaboratorFailsAt(text, k) ==
    /\ HasRequest(text)
    /\ k \in 1..Len(Objects(text))
    /\ Failure(text, k) \in {"Loader", "get_object_documentation", "serialize_object"}
    /\ \A j \in 1..(k - 1) : Failure(text, j) = ""

\* A collaborator call fails while the text's request is processed.
CollaboratorFails(text) ==
    /\ HasRequest(text)
    /\ \E k \in 1..Len(Objects(text)) : CollaboratorFailsAt(text, k)

\* The lines of input whose handling is over.
Handled == IF pc \in {"for", "raised"} THEN Len(inp) - 1 ELSE Len(inp)

\* The result of one text on its own: process_json run from a clean start.
RECURSIVE RunFrom(_, _, _)
RunFrom(objs, j, l) ==
    IF j > Len(objs) \/ l.exc # NoExc THEN l
    ELSE RunFrom(objs, j + 1,
                 Iteration(l.global_config, l.loading_errors, l.parsing_errors,
                           l.collected, objs[j]))

ResultOf(text) ==
    LET e == Enter(text)
    IN  IF e.exc # NoExc THEN json_dumps(ErrorObject(e.exc))
        ELSE LET l == RunFrom(e.config["objects"], 1,
                              Locals(NoExc, e.global_config, <<>>, EmptyMap, <<>>, <<>>))
             IN  IF l.exc # NoExc THEN json_dumps(ErrorObject(l.exc))
                 ELSE json_dumps(Envelope(l.loading_errors, l.parsing_errors, l.collected))

\* The tree the Loader returns for object spec j of the text's request.
TreeOf(text, j) == Documentation(Objects(text)[j]["path"])

-----------------------------------------------------------------------------
(* Properties *)

\* C1: in line mode every input line whose handling is over has exactly one
\* output line, and the k-th output line is the result of the k-th input
\* line, whatever mix of succeeding and failing lines was read.
C1_OneOutputLinePerInputLine ==
    line_by_line =>
        /\ Len(out) = (IF pc = "for" \/ pc = "raised" THEN Len(inp) - 1 ELSE Len(inp))
        /\ \A k \in 1..Len(out) : out[k] = ResultOf(inp[k])

\* A finished line-mode run of two or more lines, a failing one followed by a
\* succeeding one.
C1_Witness ==
    /\ line_by_line
    /\ pc = "done"
    /\ Len(inp) >= 2
    /\ Len(out) = Len(inp)
    /\ IsErrorObject(out[1])
    /\ IsEnvelope(out[2])

\* C2: in line mode a failing line never ends the loop: main does not crash,
\* the line's output is an object with exactly the keys error and traceback,
\* and every line read after it is handled too.
C2_FailingLineIsIsolated ==
    line_by_line =>
        /\ pc # "crashed"
        /\ exit_code # 1
        /\ \A k \in 1..Len(inp) :
              TextFails(inp[k]) =>
                  IF k <= Len(out)
                  THEN IsErrorObject(out[k])
                  ELSE k = Len(inp) /\ pc \in {"for", "raised"}
        /\ (pc \in {"main", "done"} => Len(out) = Len(inp))

\* A failing first line, and a second line read after it that got its envelope.
C2_Witness ==
    /\ line_by_line
    /\ Len(inp) >= 2
    /\ TextFails(inp[1])
    /\ IsErrorObject(out[1])
    /\ Len(out) >= 2
    /\ ~TextFails(inp[2])
    /\ IsEnvelope(out[2])

\* C3: when a collaborator call fails while object k of a request is
\* processed, no envelope is written for the request: in line mode its only
\* output is the error object, in whole-stream mode there is no output.
C3_NoPartialResults ==
    \A n \in 1..Len(inp) :
        CollaboratorFails(inp[n]) =>
            /\ Len(out) <= Len(inp)
            /\ line_by_line => (n <= Len(out) => IsErrorObject(out[n]))
            /\ ~line_by_line => out = <<>>

\* A request whose first object was processed with results and whose second
\* object failed in a collaborator, after the failure was dealt with.
C3_Witness ==
    \E n \in 1..Len(inp) :
        /\ CollaboratorFailsAt(inp[n], 2)
        /\ LoaderErrors(Objects(inp[n])[1]["path"]) # <<>>
        /\ n <= Handled
        /\ pc \in {"main", "done"}
        /\ IsErrorObject(out[n])

\* C4: when process_json has returned, the value it returned is the response
\* envelope, and the call wrote nothing to the output stream.
C4_ReturnsEnvelope ==
    pc = "returned" =>
        /\ DOMAIN ret = {"loading_errors", "parsing_errors", "objects"}
        /\ Len(out) = Len(inp) - 1

\* C5: in whole-stream mode, when decoding or processing of the input fails,
\* nothing is written to the output stream and main does not return.
C5_WholeStreamFailurePrintsNothing ==
    (~line_by_line /\ Len(inp) = 1 /\ TextFails(inp[1])) =>
        /\ out = <<>>
        /\ pc \in {"for", "raised", "crashed"}
        /\ exit_code # 0

\* Whole-stream mode crashed on the second object, after the first succeeded.
C5_Witness ==
    /\ ~line_by_line
    /\ pc = "crashed"
    /\ Len(inp) = 1
    /\ CollaboratorFailsAt(inp[1], 2)
    /\ out = <<>>

\* C6: a request that succeeds gets an envelope whose `objects` has one
\* element per object spec, the i-th being the serialization of the tree the
\* Loader returned for the i-th spec.
C6_ObjectsInRequestOrder ==
    \A n \in 1..Len(out) :
        /\ ~TextFails(inp[n]) => IsEnvelope(out[n])
        /\ IsEnvelope(out[n]) =>
              /\ Len(out[n].value["objects"]) = Len(Objects(inp[n]))
              /\ \A i \in 1..Len(Objects(inp[n])) :
                    out[n].value["objects"][i] = serialize_object(TreeOf(inp[n], i))

\* An envelope for a request of two objects with different trees.
C6_Witness ==
    \E n \in 1..Len(out) :
        /\ IsEnvelope(out[n])
        /\ Len(Objects(inp[n])) >= 2
        /\ TreeOf(inp[n], 1) # TreeOf(inp[n], 2)
        /\ Len(out[n].value["objects"]) = Len(Objects(inp[n]))

\* C7: the envelope's loading_errors is the concatenation, in request order,
\* of the errors the Loader reported for each object's own load call.
C7_LoadingErrorsConcatenated ==
    \A n \in 1..Len(out) :
        IsEnvelope(out[n]) =>
            out[n].value["loading_errors"] =
                Concat([i \in 1..Len(Objects(inp[n])) |->
                          LoaderErrors(Objects(inp[n])[i]["path"])])

\* An envelope for two objects that both reported load errors.
C7_Witness ==
    \E n \in 1..Len(out) :
        /\ IsEnvelope(out[n])
        /\ Len(Objects(inp[n])) >= 2
        /\ LoaderErrors(Objects(inp[n])[1]["path"]) # <<>>
        /\ LoaderErrors(Objects(inp[n])[2]["path"]) # <<>>
        /\ LoaderErrors(Objects(inp[n])[1]["path"]) # LoaderErrors(Objects(inp[n])[2]["path"])
        /\ Len(out[n].value["loading_errors"]) >= 3

\* C8: the envelope's parsing_errors holds every path that carries docstring
\* errors in some object's tree, with the error list of the last object, in
\* request order, whose tree carries errors under that path.
C8_LastObjectWinsCollision ==
    \A n \in 1..Len(out) :
        IsEnvelope(out[n]) =>
            LET N == Len(Objects(inp[n]))
                E(j) == extract_errors(TreeOf(inp[n], j))
                pe == out[n].value["parsing_errors"]
            IN  /\ DOMAIN pe = UNION { DOMAIN E(j) : j \in 1..N }
                /\ \A p \in DOMAIN pe :
                      \E j \in 1..N :
                          /\ p \in DOMAIN E(j)
                          /\ \A later \in (j + 1)..N : p \notin DOMAIN E(later)
                          /\ pe[p] = E(j)[p]

\* An envelope for two objects whose trees collide on a path with different
\* error lists, the first tree also carrying errors under a path of its own.
C8_Witness ==
    \E n \in 1..Len(out) :
        /\ IsEnvelope(out[n])
        /\ Len(Objects(inp[n])) >= 2
        /\ LET E1 == extract_errors(TreeOf(inp[n], 1))
               E2 == extract_errors(TreeOf(inp[n], 2))
               pe == out[n].value["parsing_errors"]
           IN  /\ \E p \in DOMAIN E1 \cap DOMAIN E2 : E1[p] # E2[p] /\ pe[p] = E2[p]
               /\ \E q \in DOMAIN E1 \ DOMAIN E2 : pe[q] = E1[q]

\* C9: the configuration every Loader is constructed with is global_config
\* overlaid with the object spec's config: the spec's keys with the spec's
\* values, the other global keys with the global values, and no other key.
C9_EffectiveConfigIsShallowMerge ==
    \A c \in 1..Len(calls) :
        calls[c].op = "Loader" =>
            LET g == GlobalOf(inp[calls[c].line])
                own == ConfigOf(Objects(inp[calls[c].line])[calls[c].obj])
                passed == calls[c].config
            IN  /\ DOMAIN passed = DOMAIN g \cup DOMAIN own
                /\ \A k \in DOMAIN own : passed[k] = own[k]
                /\ \A k \in DOMAIN g \ DOMAIN own : passed[k] = g[k]

\* A Loader constructed for a spec that overrides one global key and leaves
\* another one alone.
C9_Witness ==
    \E c \in 1..Len(calls) :
        /\ calls[c].op = "Loader"
        /\ LET g == GlobalOf(inp[calls[c].line])
               own == ConfigOf(Objects(inp[calls[c].line])[calls[c].obj])
           IN  /\ \E k \in DOMAIN g \cap DOMAIN own : g[k] # own[k]
               /\ DOMAIN g \ DOMAIN own # {}
               /\ calls[c].config = [a |-> 1, b |-> 3]

\* C10: while a request is processed global_config keeps the value it had
\* when processing started, and the configuration of a later object holds
\* nothing of an earlier object's config.
C10_GlobalConfigNotMutated ==
    /\ pc = "for" =>
          /\ config = inp[Len(inp)].value
          /\ global_config = GlobalOf(inp[Len(inp)])
    /\ \A c \in 1..Len(calls) :
          (calls[c].op = "Loader" /\ calls[c].obj > 1) =>
              LET g == GlobalOf(inp[calls[c].line])
                  own == ConfigOf(Objects(inp[calls[c].line])[calls[c].obj])
              IN  \A k \in DOMAIN calls[c].config :
                      k \in DOMAIN own \/ (k \in DOMAIN g /\ calls[c].config[k] = g[k])

\* All objects of a request are processed, the first one overrode a global
\* key that the second one leaves alone, and global_config is what it was.
C10_Witness ==
    /\ pc = "for"
    /\ idx > Len(config["objects"])
    /\ Len(config["objects"]) >= 2
    /\ "b" \in DOMAIN global_config
    /\ "b" \in DOMAIN ConfigOf(config["objects"][1])
    /\ ConfigOf(config["objects"][1])["b"] # global_config["b"]
    /\ "b" \notin DOMAIN ConfigOf(config["objects"][2])
    /\ global_config = GlobalOf(inp[Len(inp)])

-----------------------------------------------------------------------------
(* What the properties of extract_errors talk about *)

\* The positions of the nodes of a tree.
RECURSIVE Positions(_)
Positions(t) ==
    { <<>> } \cup UNION { { <<c>> \o q : q \in Positions(t.children[c]) } :
                            c \in 1..Len(t.children) }

\* The positions of a tree in depth-first pre-order: a node, then the
\* subtrees of its children in their sequence order.
RECURSIVE PreOrder(_)
RECURSIVE PreOrderFrom(_, _)
PreOrder(t) == << <<>> >> \o PreOrderFrom(t, 1)

PreOrderFrom(t, c) ==
    IF c > Len(t.children) THEN <<>>
    ELSE LET sub == PreOrder(t.children[c])
         IN  [i \in 1..Len(sub) |-> <<c>> \o sub[i]] \o PreOrderFrom(t, c + 1)

HasErrorsAttribute(n) == "docstring_errors" \in DOMAIN n

\* No two nodes of the tree have the same path.
UniquePaths(t) ==
    \A p, q \in Positions(t) : p # q => NodeAt(t, p).path # NodeAt(t, q).path

\* A run of extract_errors has just returned.
RunOver == xpc = "idle" /\ returned # <<>>

LastReturned == returned[Len(returned)]

\* C11: on a tree with unique paths extract_errors returns exactly one entry
\* per node that carries a non-empty docstring_errors, under the node's path
\* and with the node's errors, and none for any other node.
C11_EntriesForNonEmptyErrorsOnly ==
    (RunOver /\ UniquePaths(given)) =>
        LET erring == { p \in Positions(given) :
                          /\ HasErrorsAttribute(NodeAt(given, p))
                          /\ NodeAt(given, p).docstring_errors # <<>> }
        IN  /\ DOMAIN LastReturned = { NodeAt(given, p).path : p \in erring }
            /\ \A p \in erring :
                  LastReturned[NodeAt(given, p).path] = NodeAt(given, p).docstring_errors

\* C16: every run of extract_errors on a tree returns the same mapping, the
\* one the recursion yields on the tree as handed over, and at no step of a
\* run is the tree other than it was handed over.
C16_PureAndIdempotent ==
    /\ tree = given
    /\ \A i, j \in 1..Len(returned) : returned[i] = returned[j]
    /\ \A i \in 1..Len(returned) : returned[i] = extract_errors(given)

\* Two runs on a tree that carries errors are over.
C16_Witness ==
    /\ xpc = "idle"
    /\ Len(returned) >= 2
    /\ returned[1] # EmptyMap
    /\ returned[2] = returned[1]
    /\ \E p \in Positions(given) : p # <<>> /\ HasErrorsAttribute(NodeAt(given, p))

\* C18: the nodes are handled in depth-first pre-order, each exactly once,
\* and the entry a run returns for a path is the docstring_errors of the
\* last node in that order that carries errors under the path.
C18_PreOrderLastVisitWins ==
    /\ Len(visited) <= Len(PreOrder(given))
    /\ \A i \in 1..Len(visited) : visited[i] = PreOrder(given)[i]
    /\ RunOver =>
          /\ Len(visited) = Cardinality(Positions(given))
          /\ { visited[i] : i \in 1..Len(visited) } = Positions(given)
          /\ \A i \in 1..Len(visited) :
                LET n == NodeAt(given, visited[i])
                IN  HasErrorsAttribute(n) =>
                        /\ n.path \in DOMAIN LastReturned
                        /\ (\A j \in (i + 1)..Len(visited) :
                               LET later == NodeAt(given, visited[j])
                               IN  ~(HasErrorsAttribute(later) /\ later.path = n.path))
                           => LastReturned[n.path] = n.docstring_errors

\* A run is over on a tree of depth two in which two nodes carry different
\* errors under one path; the entry is the one of the node handled later.
C18_Witness ==
    /\ RunOver
    /\ \E i, j \in 1..Len(visited) :
          /\ i < j
          /\ Len(visited[j]) >= 2
          /\ HasErrorsAttribute(NodeAt(given, visited[i]))
          /\ HasErrorsAttribute(NodeAt(given, visited[j]))
          /\ NodeAt(given, visited[i]).path = NodeAt(given, visited[j]).path
          /\ NodeAt(given, visited[i]).docstring_errors
                 # NodeAt(given, visited[j]).docstring_errors
          /\ LastReturned[NodeAt(given, visited[j]).path]
                 = NodeAt(given, visited[j]).docstring_errors

-----------------------------------------------------------------------------
(* More properties of main and process_config *)

\* The text decodes to a JSON object that lacks `objects`, or one of whose
\* object specs lacks `path`.
LacksRequiredKey(text) ==
    /\ text.text = "{...}"
    /\ \/ "objects" \notin DOMAIN text.value
       \/ \E j \in 1..Len(Objects(text)) : "path" \notin DOMAIN Objects(text)[j]

\* C12: a request in which nothing raises gets a well-formed envelope with
\* one serialized tree per object, whatever loading and parsing errors it
\* reports; an error object is only ever the output of a failure.
C12_ErrorsReportedNotFatal ==
    /\ \A n \in 1..Len(inp) :
          (n <= Handled /\ ~TextFails(inp[n])) =>
              /\ n <= Len(out)
              /\ IsEnvelope(out[n])
              /\ Len(out[n].value["objects"]) = Len(Objects(inp[n]))
              /\ \A i \in 1..Len(Objects(inp[n])) :
                    out[n].value["objects"][i].path = TreeOf(inp[n], i).path
    /\ \A n \in 1..Len(out) : IsErrorObject(out[n]) => TextFails(inp[n])

\* An envelope of two objects that reports loading errors and parsing errors.
C12_Witness ==
    \E n \in 1..Len(out) :
        /\ ~TextFails(inp[n])
        /\ IsEnvelope(out[n])
        /\ out[n].value["loading_errors"] # <<>>
        /\ out[n].value["parsing_errors"] # EmptyMap
        /\ Len(out[n].value["objects"]) = 2

\* C13: in line mode the output of a line depends on that line alone: a
\* line preceded by other lines gets the result it gets on a clean start,
\* equal lines of one stream get equal outputs, and the Loaders of a line
\* are configured with keys of that line's request only.
C13_OutputDependsOnLineAlone ==
    line_by_line =>
        /\ \A k \in 2..Len(out) : out[k] = ResultOf(inp[k])
        /\ \A j, k \in 1..Len(out) : inp[j] = inp[k] => out[j] = out[k]
        /\ \A c \in 1..Len(calls) :
              calls[c].op = "Loader" =>
                  DOMAIN calls[c].config \subseteq
                      DOMAIN GlobalOf(inp[calls[c].line])
                      \cup DOMAIN ConfigOf(Objects(inp[calls[c].line])[calls[c].obj])

\* A request that reported loading and parsing errors was followed by the
\* same request, and both got the same output line.
C13_Witness ==
    /\ line_by_line
    /\ Len(out) >= 2
    /\ IsEnvelope(out[1])
    /\ out[1].value["loading_errors"] # <<>>
    /\ out[1].value["parsing_errors"] # EmptyMap
    /\ inp[2] = inp[1]
    /\ out[2] = out[1]

\* C14: in line mode, whenever the next input line is awaited, every line
\* printed so far has left the buffer of the output stream.
C14_DeliveredBeforeNextLine ==
    (line_by_line /\ pc = "main") => delivered = Len(out)

\* C15: a decoded request without `objects`, or with an object spec without
\* `path`, fails: no envelope is printed for it, and every call of
\* get_object_documentation is made with the `path` the object spec holds.
C15_MissingKeysAreFailures ==
    /\ \A n \in 1..Len(inp) :
          LacksRequiredKey(inp[n]) =>
              /\ n <= Handled => (IF line_by_line THEN n <= Len(out) ELSE pc = "crashed")
              /\ n <= Len(out) => (line_by_line /\ IsErrorObject(out[n]))
              /\ ~line_by_line => out = <<>>
    /\ \A c \in 1..Len(calls) :
          calls[c].op = "get_object_documentation" =>
              LET spec == Objects(inp[calls[c].line])[calls[c].obj]
              IN  /\ "path" \in DOMAIN spec
                  /\ calls[c].path = spec["path"]

\* A request whose first object was loaded and whose second object spec has
\* no path: a Loader was made for the second object, nothing was loaded for
\* it, and main crashed on the KeyError without output.
C15_Witness ==
    /\ ~line_by_line
    /\ pc = "crashed"
    /\ exc = Raise("KeyError", "'path'")
    /\ out = <<>>
    /\ Len(Objects(inp[1])) = 2
    /\ "path" \notin DOMAIN Objects(inp[1])[2]
    /\ \E c \in 1..Len(calls) : calls[c].op = "get_object_documentation" /\ calls[c].obj = 1
    /\ \E c \in 1..Len(calls) : calls[c].op = "Loader" /\ calls[c].obj = 2
    /\ \A c \in 1..Len(calls) : calls[c].op = "get_object_documentation" => calls[c].obj # 2

\* C17: in line mode main ends, returning 0, and its exit status is never
\* that of a failure, whichever lines failed.
C17_LineModeEndsWithZero ==
    /\ line_by_line => <>(pc = "done" /\ exit_code = 0 /\ Len(out) = Len(inp))
    /\ [](line_by_line => exit_code \in {-1, 0})

\* A line-mode run of two or more lines that all failed has ended with 0.
C17_Witness ==
    /\ line_by_line
    /\ pc = "done"
    /\ exit_code = 0
    /\ Len(inp) >= 2
    /\ \A k \in 1..Len(inp) : TextFails(inp[k]) /\ IsErrorObject(out[k])

\* C19: a request with an empty `objects` list gets the envelope with empty
\* loading_errors, parsing_errors and objects, and no collaborator is called
\* for it.
C19_EmptyObjectsGivesEmptyEnvelope ==
    \A n \in 1..Len(inp) :
        (HasRequest(inp[n]) /\ Objects(inp[n]) = <<>>) =>
            /\ n <= Handled =>
                  /\ n <= Len(out)
                  /\ out[n] = json_dumps([loading_errors |-> <<>>,
                                          parsing_errors |-> EmptyMap,
                                          objects |-> <<>>])
            /\ \A c \in 1..Len(calls) : calls[c].line # n

\* Line mode has printed the empty envelope for a request without objects
\* and awaits the next line.
C19_Witness ==
    /\ line_by_line
    /\ pc = "main"
    /\ Len(inp) >= 1
    /\ HasRequest(inp[Len(inp)])
    /\ Objects(inp[Len(inp)]) = <<>>
    /\ Len(out) = Len(inp)
    /\ IsEnvelope(out[Len(out)])
    /\ out[Len(out)].value["objects"] = <<>>

====
